---- MODULE Spec2Model ----
(***************************************************************************)
(* Model of xfields/beam_elements/beambeam_src/beambeam3d.h: the Hirata    *)
(* synchro-beam kick (synchrobeam_kick) and its per-particle driver        *)
(* (BeamBeamBiGaussian3D_track_local_particle).                            *)
(*                                                                         *)
(* Numbers.  The C code works on doubles.  The model works on an integer   *)
(* grid: every coordinate, shift, slice centre and variance is an integer  *)
(* number of grid units, + - * are exact, and 0.5*a is Half(a).  The       *)
(* inputs are drawn from even values and every slice intensity is even,    *)
(* so that every quantity the code halves is even (HalvesExact below is    *)
(* checked as an invariant): on these inputs Half is exact, as 0.5*a is    *)
(* in binary floating point.  sqrt and hypot are the exact roots: Sqrt and  *)
(* Hypot are defined where the root lies on the grid, and the inputs of    *)
(* the model are those for which every root the code takes does            *)
(* (RootsOnGrid below); the roots that are irrational are not modelled.    *)
(*                                                                         *)
(* Collaborators.  Sigmas_propagate, get_Ex_Ey_gauss, compute_Gx_Gy,       *)
(* synrad, synrad_avg, the two frame transforms and the LocalParticle      *)
(* accessors are called by beambeam3d.h and defined elsewhere.  They are   *)
(* modelled from their contracts in the specification (sections 3, 4, 6    *)
(* and the glossary) by integer surrogates; each says what it keeps.       *)
(***************************************************************************)
EXTENDS Integers, Sequences, FiniteSets, TLC

VARIABLES
    el,        \* the beam-beam element: configuration and strong-beam slice table
    parts,     \* the particle array: particle id -> stored particle
    table,     \* the beamstrahlung record table (a sequence of entries)
    pc,        \* per particle: position in the per-particle block
    w,         \* per particle: the driver's local x, px, y, py, zeta, pzeta, delta
    i_slice,   \* per particle: the loop counter of the slice loop
    parts0,    \* history: the particle array at the start of the call
    log        \* history: per particle, the calls the driver has made so far

vars == <<el, parts, table, pc, w, i_slice, parts0, log>>

\* The largest number of strong-beam slices in a slice table of the model.
MaxSlices == 2

\* Physical constants used at lines 43 and 46, in grid units.
QELEM == 1
C_LIGHT == 1

----------------------------------------------------------------------------
\* Arithmetic helpers.

Abs(a) == IF a < 0 THEN -a ELSE a

\* 0.5*a (lines 49, 125, 145, 158).
Half(a) == a \div 2

\* sqrt(a) (lines 104, 111, 153): the k >= 0 with k*k = a.  It has a value
\* only where a is a perfect square (SqrtOnGrid); no value stands in for an
\* irrational root or for the root of a negative number.
SqrtOnGrid(a) == \E k \in 0..a : k * k = a
Sqrt(a) == CHOOSE k \in 0..a : k * k = a

\* hypot(a, b) (line 142): the k >= 0 with k*k = a*a + b*b, where there is one
\* on the grid (HypotOnGrid).
HypotOnGrid(a, b) == \E k \in 0..(Abs(a) + Abs(b)) : k * k = a * a + b * b
Hypot(a, b) == CHOOSE k \in 0..(Abs(a) + Abs(b)) : k * k = a * a + b * b

----------------------------------------------------------------------------
\* LocalParticle accessor surface (specification section 6): a particle stores
\* its six coordinates, the derived delta, its charge multiple and reference
\* momentum, and the state of its own random generator.

\* delta as a function of pzeta for an ultra-relativistic particle (beta0 = 1).
DeltaOf(pz) == pz

\* The energy-deviation update path: writes pzeta and recomputes delta.
LocalParticle_update_pzeta(part, pz) ==
    [part EXCEPT !.pzeta = pz, !.delta = DeltaOf(pz)]

\* What the radiation models do to the particle: lower its energy deviation by
\* energy_loss, through the update path.
LocalParticle_add_to_energy(part, energy_loss) ==
    LocalParticle_update_pzeta(part, part.pzeta - energy_loss)

\* 1/(1+delta); to grid resolution 1 for the energy deviations of the model.
LocalParticle_get_rpp(part) == 1

----------------------------------------------------------------------------
\* Frame Transform (specification sections 2 and 6): a pure, invertible map of
\* one particle's six coordinates.  The surrogate keeps the structure of the
\* transform (remove the shifts, rotate into the crossing plane, boost) with
\* maps that are exact on the grid: the crossing-plane rotation is by a
\* multiple of a right angle, and the boost is the symplectic shear
\* x += tan_phi*zeta, pzeta -= tan_phi*px that the Lorentz boost reduces to
\* at first order in the crossing angle.

change_ref_frame_coordinates(c, shift, e) ==
    LET x0  == c.x - shift.x
        px0 == c.px - shift.px
        y0  == c.y - shift.y
        py0 == c.py - shift.py
        z0  == c.zeta - shift.zeta
        pz0 == c.pzeta - shift.pzeta
        x1  == x0 * e.cos_alpha + y0 * e.sin_alpha
        y1  == y0 * e.cos_alpha - x0 * e.sin_alpha
        px1 == px0 * e.cos_alpha + py0 * e.sin_alpha
        py1 == py0 * e.cos_alpha - px0 * e.sin_alpha
    IN  [c EXCEPT !.x = x1 + e.tan_phi * z0, !.px = px1,
                  !.y = y1, !.py = py1,
                  !.zeta = z0, !.pzeta = pz0 - e.tan_phi * px1]

change_back_ref_frame_and_subtract_dipolar_coordinates(c, shift, post, e) ==
    LET x1  == c.x - e.tan_phi * c.zeta
        pz1 == c.pzeta + e.tan_phi * c.px
        x0  == x1 * e.cos_alpha - c.y * e.sin_alpha
        y0  == c.y * e.cos_alpha + x1 * e.sin_alpha
        px0 == c.px * e.cos_alpha - c.py * e.sin_alpha
        py0 == c.py * e.cos_alpha + c.px * e.sin_alpha
    IN  [c EXCEPT !.x = x0 + shift.x - post.x,
                  !.px = px0 + shift.px - post.px,
                  !.y = y0 + shift.y - post.y,
                  !.py = py0 + shift.py - post.py,
                  !.zeta = c.zeta + shift.zeta - post.zeta,
                  !.pzeta = pz1 + shift.pzeta - post.pzeta]

----------------------------------------------------------------------------
\* Sigma Propagator (specification section 6) for a slice without x-y
\* coupling (Sigma_13 = Sigma_14 = Sigma_23 = Sigma_24 = 0, the only slices of
\* the model): the drift by S gives Sigma_11 + 2 S Sigma_12 + S^2 Sigma_22 (and
\* the same in y), the matrix is already diagonal, so the rotation is the
\* identity and does not depend on S.

Sigmas_propagate(sl, S, threshold_singular) ==
    [Sig_11_hat_star    |-> sl.Sigma_11_star + 2 * sl.Sigma_12_star * S
                              + sl.Sigma_22_star * S * S,
     Sig_33_hat_star    |-> sl.Sigma_33_star + 2 * sl.Sigma_34_star * S
                              + sl.Sigma_44_star * S * S,
     costheta           |-> 1,
     sintheta           |-> 0,
     dS_Sig_11_hat_star |-> 2 * sl.Sigma_12_star + 2 * sl.Sigma_22_star * S,
     dS_Sig_33_hat_star |-> 2 * sl.Sigma_34_star + 2 * sl.Sigma_44_star * S,
     dS_costheta        |-> 0,
     dS_sintheta        |-> 0]

\* Gaussian Field Solver (section 6): the field of the bi-Gaussian at small
\* amplitude, Ex : Ey = x/sigma_x : y/sigma_y, in units that make it an
\* integer; beam sizes closer than min_sigma_diff take the round-beam branch.
get_Ex_Ey_gauss(x, y, sigma_x, sigma_y, min_sigma_diff) ==
    IF Abs(sigma_x - sigma_y) < min_sigma_diff
    THEN [Ex |-> x * sigma_x, Ey |-> y * sigma_x]
    ELSE [Ex |-> x * sigma_y, Ey |-> y * sigma_x]

\* Field-Gradient Solver (section 6).
compute_Gx_Gy(x, y, sigma_x, sigma_y, min_sigma_diff, Ex, Ey) ==
    IF Abs(sigma_x - sigma_y) < min_sigma_diff
    THEN [Gx |-> -(x * Ex + y * Ey), Gy |-> -(x * Ex + y * Ey)]
    ELSE [Gx |-> -(x * Ex + y * Ey), Gy |-> x * Ex + y * Ey]

----------------------------------------------------------------------------
\* Radiation Model (sections 2, 6 and the glossary).  Beamstrahlung is
\* radiated because of the field of the opposing beam: a particle that feels
\* no field (Fr = 0), or crosses a slice of no intensity, radiates nothing.

\* Stochastic model: one draw of the particle's own generator decides whether
\* a photon is emitted over the path dz under the kick Fr, and its energy.  An
\* emitted photon lowers the particle's energy and, when a record sink is
\* present, is appended to the record table.
synrad(part, pid, has_record, tbl, Fr, dz) ==
    LET r      == part.rng
        emit   == Fr * dz > r
        energy == IF emit THEN 1 + r ELSE 0
        part1  == [part EXCEPT !.rng = (r + 1) % 2]
    IN  [part  |-> IF emit THEN LocalParticle_add_to_energy(part1, energy)
                   ELSE part1,
         table |-> IF emit /\ has_record
                   THEN Append(tbl, [particle_id |-> pid, photon_energy |-> energy])
                   ELSE tbl,
         energy_loss |-> energy]

\* Averaged model: a deterministic loss that grows with the slice intensity and
\* falls with the slice's transverse size; no recording.
synrad_avg(part, n_bb, sigma_x, sigma_y, sigma_z) ==
    LET energy == (n_bb * 2 * sigma_z) \div (1 + sigma_x + sigma_y)
    IN  [part |-> IF energy = 0 THEN part
                  ELSE LocalParticle_add_to_energy(part, energy),
         energy_loss |-> energy]

----------------------------------------------------------------------------
\* synchrobeam_kick (lines 10-166).  c holds the values behind the six
\* pointers x_star .. pzeta_star; slice i_slice (counted from 0, as in the
\* code) is el.slices[i_slice + 1].

Slice(e, i) == e.slices[i + 1]

\* Mutant of Ksl: the slice's macroparticle count is read for its intensity.
Ksl_Macroparticles(e, i, q0, p0c) ==
    LET num_part_slice == Slice(e, i).num_macroparticles
        P0 == (p0c \div C_LIGHT) * QELEM
    IN  (num_part_slice * QELEM * e.other_beam_q0 * QELEM * q0) \div (P0 * C_LIGHT)

\* Lines 37-46: the force scaling factor of slice i.
Ksl(e, i, q0, p0c) ==
    LET num_part_slice == Slice(e, i).num_particles
        P0 == (p0c \div C_LIGHT) * QELEM
    IN  (num_part_slice * QELEM * e.other_beam_q0 * QELEM * q0) \div (P0 * C_LIGHT)

\* Lines 48-49: the collision point.
CollisionPoint(e, i, c) ==
    Half(c.zeta - Slice(e, i).zeta_center_star)

\* Lines 93-126: from the offsets to the slice centroid at the collision
\* point, the propagated sigmas sg and the scaling factor K, the kick
\* components.
FieldKick(K, S, sg, x_bar_star, y_bar_star, min_sigma_diff) ==
    LET x_bar_hat_star == x_bar_star * sg.costheta + y_bar_star * sg.sintheta
        y_bar_hat_star == y_bar_star * sg.costheta - x_bar_star * sg.sintheta
        dS_x_bar_hat_star == x_bar_star * sg.dS_costheta + y_bar_star * sg.dS_sintheta
        dS_y_bar_hat_star == y_bar_star * sg.dS_costheta - x_bar_star * sg.dS_sintheta
        sigma_x == Sqrt(sg.Sig_11_hat_star)
        sigma_y == Sqrt(sg.Sig_33_hat_star)
        E == get_Ex_Ey_gauss(x_bar_hat_star, y_bar_hat_star, sigma_x, sigma_y,
                             min_sigma_diff)
        G == compute_Gx_Gy(x_bar_hat_star, y_bar_hat_star, sigma_x, sigma_y,
                           min_sigma_diff, E.Ex, E.Ey)
        Fx_hat_star == K * E.Ex
        Fy_hat_star == K * E.Ey
        Gx_hat_star == K * G.Gx
        Gy_hat_star == K * G.Gy
    IN  [S       |-> S,
         Fx_star |-> Fx_hat_star * sg.costheta - Fy_hat_star * sg.sintheta,
         Fy_star |-> Fx_hat_star * sg.sintheta + Fy_hat_star * sg.costheta,
         Fz_star |-> Half(Fx_hat_star * dS_x_bar_hat_star
                          + Fy_hat_star * dS_y_bar_hat_star
                          + Gx_hat_star * sg.dS_Sig_11_hat_star
                          + Gy_hat_star * sg.dS_Sig_33_hat_star),
         sigma_x |-> sigma_x,
         sigma_y |-> sigma_y]

\* Lines 51-75: the strong beam shape at the collision point S and the
\* particle's transverse offsets to the slice centroid there.
ForcesAt(sl, K, S, min_sigma_diff, threshold_singular, c) ==
    FieldKick(K, S, Sigmas_propagate(sl, S, threshold_singular),
              c.x + c.px * S - sl.x_center_star,
              c.y + c.py * S - sl.y_center_star,
              min_sigma_diff)

\* Lines 20-126: the kick components of slice i at the coordinates c.
Forces(e, i, q0, p0c, c) ==
    ForcesAt(Slice(e, i), Ksl(e, i, q0, p0c), CollisionPoint(e, i, c),
             e.min_sigma_diff, e.threshold_singular, c)

\* Mutant of Beamstrahlung: line 154 is missing, mode 2 does not load
\* *pzeta_star again after synrad_avg.
Beamstrahlung_NoReload(e, pid, part, tbl, i, F, pzeta_star) ==
    IF e.do_beamstrahlung = 1
    THEN LET Fr == Hypot(F.Fx_star, F.Fy_star) * LocalParticle_get_rpp(part)
             dz == Half(Slice(e, i).zeta_bin_width_star)
             r  == synrad(part, pid, e.has_record, tbl, Fr, dz)
         IN  [part |-> r.part, table |-> r.table, pzeta |-> r.part.pzeta,
              rad |-> "synrad"]
    ELSE IF e.do_beamstrahlung = 2
    THEN LET var_z_bb == 1
             r == synrad_avg(part, Slice(e, i).num_particles,
                             F.sigma_x, F.sigma_y, var_z_bb)
         IN  [part |-> r.part, table |-> tbl, pzeta |-> pzeta_star,
              rad |-> "synrad_avg"]
    ELSE [part |-> part, table |-> tbl, pzeta |-> pzeta_star, rad |-> "none"]

\* Lines 139-155: the radiation model of the configured mode acts on the
\* particle (and the record table), and *pzeta_star is loaded again from the
\* particle.  rad says which model was called.  var_z_bb, 0.0121 at line 152,
\* is one grid unit.
Beamstrahlung(e, pid, part, tbl, i, F, pzeta_star) ==
    IF e.do_beamstrahlung = 1
    THEN LET Fr == Hypot(F.Fx_star, F.Fy_star) * LocalParticle_get_rpp(part)
             dz == Half(Slice(e, i).zeta_bin_width_star)
             r  == synrad(part, pid, e.has_record, tbl, Fr, dz)
         IN  [part |-> r.part, table |-> r.table, pzeta |-> r.part.pzeta,
              rad |-> "synrad"]
    ELSE IF e.do_beamstrahlung = 2
    THEN LET var_z_bb == 1
             r == synrad_avg(part, Slice(e, i).num_particles,
                             F.sigma_x, F.sigma_y, var_z_bb)
         IN  [part |-> r.part, table |-> tbl, pzeta |-> r.part.pzeta,
              rad |-> "synrad_avg"]
    ELSE [part |-> part, table |-> tbl, pzeta |-> pzeta_star, rad |-> "none"]

\* Mutant of ApplyKicks: x, px, y, py are not written back.
ApplyKicks_PzetaOnly(c, pzeta_star, F) ==
    [c EXCEPT !.pzeta = pzeta_star + F.Fz_star
                        + Half(F.Fx_star * (c.px + Half(F.Fx_star))
                               + F.Fy_star * (c.py + Half(F.Fy_star)))]

\* Mutant of ApplyKicks: px and py are kicked before pzeta is computed from
\* them.
ApplyKicks_MomentaFirst(c, pzeta_star, F) ==
    [c EXCEPT !.pzeta = pzeta_star + F.Fz_star
                        + Half(F.Fx_star * (c.px + F.Fx_star + Half(F.Fx_star))
                               + F.Fy_star * (c.py + F.Fy_star + Half(F.Fy_star))),
              !.x  = c.x - F.S * F.Fx_star,
              !.px = c.px + F.Fx_star,
              !.y  = c.y - F.S * F.Fy_star,
              !.py = c.py + F.Fy_star]

\* Mutant of ApplyKicks: the kick also moves zeta, by the drift to the
\* collision point.
ApplyKicks_MovesZeta(c, pzeta_star, F) ==
    [c EXCEPT !.pzeta = pzeta_star + F.Fz_star
                        + Half(F.Fx_star * (c.px + Half(F.Fx_star))
                               + F.Fy_star * (c.py + Half(F.Fy_star))),
              !.x  = c.x - F.S * F.Fx_star,
              !.px = c.px + F.Fx_star,
              !.y  = c.y - F.S * F.Fy_star,
              !.py = c.py + F.Fy_star,
              !.zeta = c.zeta - 2 * F.S]

\* Lines 157-164: apply the kicks (Hirata's synchro-beam).
ApplyKicks(c, pzeta_star, F) ==
    [c EXCEPT !.pzeta = pzeta_star + F.Fz_star
                        + Half(F.Fx_star * (c.px + Half(F.Fx_star))
                               + F.Fy_star * (c.py + Half(F.Fy_star))),
              !.x  = c.x - F.S * F.Fx_star,
              !.px = c.px + F.Fx_star,
              !.y  = c.y - F.S * F.Fy_star,
              !.py = c.py + F.Fy_star]

\* What synchrobeam_kick leaves behind: the kicked coordinates, the particle
\* and the record table after the radiation model B, the forces F.
KickResult(c, F, B) ==
    [c |-> ApplyKicks(c, B.pzeta, F), part |-> B.part, table |-> B.table,
     F |-> F, rad |-> B.rad]

KickWith(e, pid, part, tbl, i, c, F) ==
    KickResult(c, F, Beamstrahlung(e, pid, part, tbl, i, F, c.pzeta))

synchrobeam_kick(e, pid, part, tbl, i, q0, p0c, c) ==
    KickWith(e, pid, part, tbl, i, c, Forces(e, i, q0, p0c, c))

----------------------------------------------------------------------------
\* BeamBeamBiGaussian3D_track_local_particle (lines 171-304): the steps of
\* the per-particle block, as functions of what they read.

N_slices(e) == Len(e.slices)

\* Lines 183-194: reference shift plus shift of the other beam.
Shift(e) ==
    [k \in {"x", "px", "y", "py", "zeta", "pzeta"} |->
        e.ref_shift[k] + e.other_beam_shift[k]]

\* Lines 213-222: the local copies of the particle's coordinates.
LoadStep(part) ==
    [x |-> part.x, px |-> part.px, y |-> part.y, py |-> part.py,
     zeta |-> part.zeta, pzeta |-> part.pzeta, delta |-> part.delta]

\* Mutant of BoostStep: line 251 is missing, the particle keeps its pzeta.
BoostStep_NoUpdate(e, part, c) ==
    [c |-> change_ref_frame_coordinates(c, Shift(e), e), part |-> part]

\* Lines 234-251: change the reference frame, then update the particle's
\* pzeta with the boosted value.
BoostStep(e, part, c) ==
    LET c1 == change_ref_frame_coordinates(c, Shift(e), e)
    IN  [c |-> c1, part |-> LocalParticle_update_pzeta(part, c1.pzeta)]

\* Lines 257-258: load pzeta and delta again from the particle.
ReloadStep(part, c) ==
    [c EXCEPT !.pzeta = part.pzeta, !.delta = part.delta]

\* Mutant of KickGuard: the comparison is >= instead of >.
KickGuard_AtLeastTwo(e, i) ==
    Slice(e, i).num_macroparticles >= 2

\* Lines 271-272: only apply the kick if the strong slice is not empty.
KickGuard(e, i) ==
    Slice(e, i).num_macroparticles > 2

\* Mutant of UpdateAfterKick: line 282 is missing.
UpdateAfterKick_Missing(part, pz) ==
    part

\* Line 282: the particle's pzeta is updated with the kicked value.
UpdateAfterKick(part, pz) ==
    LocalParticle_update_pzeta(part, pz)

\* Lines 281-282 on the result r of the kick.
KickStepOf(r) ==
    [c |-> r.c, part |-> UpdateAfterKick(r.part, r.c.pzeta),
     table |-> r.table, F |-> r.F, rad |-> r.rad,
     rad_pzeta |-> r.part.pzeta]

\* Lines 273-282: the kick of slice i and the update of the particle's pzeta.
KickStep(e, pid, part, tbl, i, c) ==
    KickStepOf(synchrobeam_kick(e, pid, part, tbl, i, part.q0, part.p0c, c))

\* Mutant of BackStep: the shifts of the other beam are not given back.
BackStep_RefShiftOnly(e, c) ==
    change_back_ref_frame_and_subtract_dipolar_coordinates(
        c, e.ref_shift, e.post_subtract, e)

\* Lines 286-293: back to the original frame, minus the dipolar offsets.
BackStep(e, c) ==
    change_back_ref_frame_and_subtract_dipolar_coordinates(
        c, Shift(e), e.post_subtract, e)

\* Lines 295-301: store; pzeta goes through LocalParticle_update_pzeta.
StoreStep(part, c) ==
    LocalParticle_update_pzeta(
        [part EXCEPT !.x = c.x, !.px = c.px, !.y = c.y, !.py = c.py,
                     !.zeta = c.zeta],
        c.pzeta)

\* Lines 254-284 for one particle alone: the slice loop from iteration i on.
RECURSIVE SliceLoop(_, _, _, _, _, _)
SliceLoopFrom(e, pid, i, k) == SliceLoop(e, pid, k.part, k.table, i, k.c)
SliceLoop(e, pid, part, tbl, i, c) ==
    IF i >= N_slices(e) THEN [c |-> c, part |-> part, table |-> tbl]
    ELSE IF KickGuard(e, i)
    THEN SliceLoopFrom(e, pid, i + 1,
                       KickStep(e, pid, part, tbl, i, ReloadStep(part, c)))
    ELSE SliceLoop(e, pid, part, tbl, i + 1, ReloadStep(part, c))

\* The whole per-particle block for one particle alone.
TrackEnd(e, l) ==
    [part |-> StoreStep(l.part, BackStep(e, l.c)), table |-> l.table]
TrackFrom(e, pid, tbl, b) ==
    TrackEnd(e, SliceLoop(e, pid, b.part, tbl, 0, b.c))
TrackLocalParticle(e, pid, part, tbl) ==
    TrackFrom(e, pid, tbl, BoostStep(e, part, LoadStep(part)))

\* Every root taken while the slices from i on are tracked from the
\* coordinates c lies on the grid: sqrt(Sig_11_hat_star) and
\* sqrt(Sig_33_hat_star) at lines 104, 111 and 153 of every kick, and
\* hypot(Fx_star, Fy_star) at line 142 of every kick in mode 1.
HypotOnGridOf(F) == HypotOnGrid(F.Fx_star, F.Fy_star)
RootsOnGridWith(e, i, part, c, sg) ==
    /\ SqrtOnGrid(sg.Sig_11_hat_star)
    /\ SqrtOnGrid(sg.Sig_33_hat_star)
    /\ e.do_beamstrahlung = 1 => HypotOnGridOf(Forces(e, i, part.q0, part.p0c, c))
RootsOnGridAt(e, i, part, c) ==
    RootsOnGridWith(e, i, part, c,
                    Sigmas_propagate(Slice(e, i), CollisionPoint(e, i, c),
                                     e.threshold_singular))
RECURSIVE RootsOnGrid(_, _, _, _, _)
RootsOnGridFrom(e, pid, i, k) == RootsOnGrid(e, pid, k.part, i, k.c)
RootsOnGridKick(e, pid, part, i, c) ==
    /\ RootsOnGridAt(e, i, part, c)
    /\ RootsOnGridFrom(e, pid, i + 1, KickStep(e, pid, part, <<>>, i, c))
RootsOnGrid(e, pid, part, i, c) ==
    IF i >= N_slices(e) THEN TRUE
    ELSE IF KickGuard(e, i)
    THEN RootsOnGridKick(e, pid, part, i, ReloadStep(part, c))
    ELSE RootsOnGrid(e, pid, part, i + 1, ReloadStep(part, c))

\* The roots of the whole per-particle block of one particle.
TrackOnGrid(e, pid, part) ==
    RootsOnGridFrom(e, pid, 0, BoostStep(e, part, LoadStep(part)))

----------------------------------------------------------------------------
\* The inputs of the model.

\* The number of particles tracked concurrently under SpecPar.
NParticles == 2

Coord6(x, px, y, py, zeta, pzeta) ==
    [x |-> x, px |-> px, y |-> y, py |-> py, zeta |-> zeta, pzeta |-> pzeta]

NoCoupling(sl) ==
    [Sigma_13_star |-> 0, Sigma_14_star |-> 0,
     Sigma_23_star |-> 0, Sigma_24_star |-> 0] @@ sl

\* Strong-beam slices: a flat one and a round one that are kicked, one with
\* two macroparticles, one kicked with no intensity, and an empty one.  The
\* flat slice has sizes 2 and 1 at every collision point.  The round slice
\* has fully correlated position and angle, Sigma_11 Sigma_22 = Sigma_12^2, so
\* that its propagated variance Sigma_11 + 2 S Sigma_12 + S^2 Sigma_22 is the
\* square (2 + S)^2 at every collision point S.
SliceFlat ==
    NoCoupling([num_macroparticles |-> 3, num_particles |-> 2,
                x_center_star |-> 0, y_center_star |-> 0, zeta_center_star |-> 2,
                zeta_bin_width_star |-> 2,
                Sigma_11_star |-> 4, Sigma_12_star |-> 0, Sigma_22_star |-> 0,
                Sigma_33_star |-> 1, Sigma_34_star |-> 0, Sigma_44_star |-> 0])
SliceRound ==
    NoCoupling([num_macroparticles |-> 5, num_particles |-> 4,
                x_center_star |-> 2, y_center_star |-> 0, zeta_center_star |-> -2,
                zeta_bin_width_star |-> 4,
                Sigma_11_star |-> 4, Sigma_12_star |-> 2, Sigma_22_star |-> 1,
                Sigma_33_star |-> 4, Sigma_34_star |-> 2, Sigma_44_star |-> 1])
SliceTwo   == [SliceFlat EXCEPT !.num_macroparticles = 2]
SliceNoInt == [SliceFlat EXCEPT !.num_particles = 0]
SliceEmpty == [SliceRound EXCEPT !.num_macroparticles = 0, !.num_particles = 0]

SliceTypes == {SliceFlat, SliceRound, SliceTwo, SliceNoInt, SliceEmpty}

Tables(types) == UNION {[1..n -> types] : n \in 0..MaxSlices}

Zero6 == Coord6(0, 0, 0, 0, 0, 0)

\* Crossing geometry, shifts and post-subtraction offsets: a head-on element
\* without shifts; a crossing in the x-z plane with shifts; a crossing in the
\* rotated plane with shifts and dipolar offsets.
Geometries ==
    {[sin_phi |-> 0, cos_phi |-> 1, tan_phi |-> 0, sin_alpha |-> 0, cos_alpha |-> 1,
      ref_shift |-> Zero6, other_beam_shift |-> Zero6, post_subtract |-> Zero6],
     [sin_phi |-> 1, cos_phi |-> 1, tan_phi |-> 1, sin_alpha |-> 0, cos_alpha |-> 1,
      ref_shift |-> Coord6(2, 0, 0, 2, 2, 0),
      other_beam_shift |-> Coord6(0, 2, 0, 0, 2, 2),
      post_subtract |-> Zero6],
     [sin_phi |-> 1, cos_phi |-> 1, tan_phi |-> 1, sin_alpha |-> 1, cos_alpha |-> 0,
      ref_shift |-> Coord6(0, 0, 2, 0, 0, 2),
      other_beam_shift |-> Coord6(2, 0, 0, 0, 2, 0),
      post_subtract |-> Coord6(2, 0, 2, 2, 0, 2)]}

\* Beamstrahlung mode and presence of the record sink.
Modes ==
    {[do_beamstrahlung |-> 0, has_record |-> FALSE],
     [do_beamstrahlung |-> 1, has_record |-> FALSE],
     [do_beamstrahlung |-> 1, has_record |-> TRUE],
     [do_beamstrahlung |-> 2, has_record |-> FALSE]}

Elements(types, geometries) ==
    {[other_beam_q0 |-> 1, min_sigma_diff |-> 1, threshold_singular |-> 1,
      slices |-> t] @@ g @@ m :
        t \in Tables(types), g \in geometries, m \in Modes}

Particle(x, y, py, zeta, pzeta, rng) ==
    [x |-> x, px |-> 0, y |-> y, py |-> py, zeta |-> zeta, pzeta |-> pzeta,
     delta |-> DeltaOf(pzeta), q0 |-> 1, p0c |-> 1, rng |-> rng]

\* The particles of the model; some of those with x = 6 meet the flat slice
\* at offsets like (-6, -4), where the kick components are -12 and -16 and
\* hypot is 20.
Particles ==
    {Particle(x, -2, py, zeta, pzeta, rng) :
        x \in {0, 2, 6}, py \in {0, 2}, zeta \in {0, 4}, pzeta \in {0, 2},
        rng \in {0, 1}}

ParticlesPar ==
    {Particle(2, 0, 0, 0, 0, 0), Particle(0, -2, 2, 4, 2, 1)}

ZeroW == Zero6 @@ [delta |-> 0]

InitWith(ids, elements, particles) ==
    /\ el \in elements
    /\ parts \in [ids -> particles]
    /\ \A p \in ids : TrackOnGrid(el, p, parts[p])
    /\ parts0 = parts
    /\ table = <<>>
    /\ pc = [p \in ids |-> "load"]
    /\ w = [p \in ids |-> ZeroW]
    /\ i_slice = [p \in ids |-> 0]
    /\ log = [p \in ids |-> <<>>]

\* One particle, every element and particle of the model.
Init == InitWith({1}, Elements(SliceTypes, Geometries), Particles)

\* NParticles particles tracked concurrently through one element.
InitPar ==
    InitWith(1..NParticles,
             Elements({SliceFlat, SliceTwo}, {g \in Geometries : g.tan_phi = 0}),
             ParticlesPar)

----------------------------------------------------------------------------
\* The steps of the per-particle block of particle p.

Goto(p, l) == pc' = [pc EXCEPT ![p] = l]
Logged(p, ev) == log' = [log EXCEPT ![p] = Append(@, ev)]

\* Mutant of Load: the coordinates are read from the first particle of the
\* array (part0 for part).
Load_FirstParticle(p) ==
    /\ pc[p] = "load"
    /\ w' = [w EXCEPT ![p] = LoadStep(parts[1])]
    /\ Goto(p, "boost")
    /\ UNCHANGED <<el, parts, table, i_slice, parts0, log>>

\* Lines 213-222.
Load(p) ==
    /\ pc[p] = "load"
    /\ w' = [w EXCEPT ![p] = LoadStep(parts[p])]
    /\ Goto(p, "boost")
    /\ UNCHANGED <<el, parts, table, i_slice, parts0, log>>

\* Lines 234-254: the forward transform, the update of pzeta, i_slice = 0.
BoostTo(p, b) ==
    /\ w' = [w EXCEPT ![p] = b.c]
    /\ parts' = [parts EXCEPT ![p] = b.part]
Boost(p) ==
    /\ pc[p] = "boost"
    /\ BoostTo(p, BoostStep(el, parts[p], w[p]))
    /\ i_slice' = [i_slice EXCEPT ![p] = 0]
    /\ Logged(p, [op |-> "change_ref_frame"])
    /\ Goto(p, "loop")
    /\ UNCHANGED <<el, table, parts0>>

\* Lines 254-272 and 284, guard false: the slice is passed over.
SkipSlice(p) ==
    /\ pc[p] = "loop"
    /\ i_slice[p] < N_slices(el)
    /\ ~KickGuard(el, i_slice[p])
    /\ w' = [w EXCEPT ![p] = ReloadStep(parts[p], w[p])]
    /\ i_slice' = [i_slice EXCEPT ![p] = @ + 1]
    /\ Logged(p, [op |-> "skip", i |-> i_slice[p]])
    /\ UNCHANGED <<el, parts, table, pc, parts0>>

\* Lines 254-272, guard true: synchrobeam_kick is entered.
EnterKick(p) ==
    /\ pc[p] = "loop"
    /\ i_slice[p] < N_slices(el)
    /\ KickGuard(el, i_slice[p])
    /\ w' = [w EXCEPT ![p] = ReloadStep(parts[p], w[p])]
    /\ Goto(p, "kick")
    /\ UNCHANGED <<el, parts, table, i_slice, parts0, log>>

\* Lines 273-284: synchrobeam_kick, the update of pzeta, i_slice++.
KickSliceTo(p, k) ==
    /\ w' = [w EXCEPT ![p] = k.c]
    /\ parts' = [parts EXCEPT ![p] = k.part]
    /\ table' = k.table
    /\ Logged(p, [op |-> "synchrobeam_kick", i |-> i_slice[p],
                  F |-> k.F, rad |-> k.rad, rad_pzeta |-> k.rad_pzeta,
                  c_in |-> w[p], stored_in |-> parts[p].pzeta,
                  c_out |-> k.c, stored_out |-> k.part.pzeta])
KickSlice(p) ==
    /\ pc[p] = "kick"
    /\ KickSliceTo(p, KickStep(el, p, parts[p], table, i_slice[p], w[p]))
    /\ i_slice' = [i_slice EXCEPT ![p] = @ + 1]
    /\ Goto(p, "loop")
    /\ UNCHANGED <<el, parts0>>

\* Line 254: the loop ends.
ExitLoop(p) ==
    /\ pc[p] = "loop"
    /\ i_slice[p] >= N_slices(el)
    /\ Goto(p, "back")
    /\ UNCHANGED <<el, parts, table, w, i_slice, parts0, log>>

\* Lines 286-293.
ChangeBack(p) ==
    /\ pc[p] = "back"
    /\ w' = [w EXCEPT ![p] = BackStep(el, w[p])]
    /\ Logged(p, [op |-> "change_back_ref_frame"])
    /\ Goto(p, "store")
    /\ UNCHANGED <<el, parts, table, i_slice, parts0>>

\* Lines 295-301.
Store(p) ==
    /\ pc[p] = "store"
    /\ parts' = [parts EXCEPT ![p] = StoreStep(parts[p], w[p])]
    /\ Logged(p, [op |-> "store"])
    /\ Goto(p, "done")
    /\ UNCHANGED <<el, table, w, i_slice, parts0>>

Next ==
    \/ \E p \in DOMAIN pc : Load(p)
    \/ \E p \in DOMAIN pc : Boost(p)
    \/ \E p \in DOMAIN pc : SkipSlice(p)
    \/ \E p \in DOMAIN pc : EnterKick(p)
    \/ \E p \in DOMAIN pc : KickSlice(p)
    \/ \E p \in DOMAIN pc : ExitLoop(p)
    \/ \E p \in DOMAIN pc : ChangeBack(p)
    \/ \E p \in DOMAIN pc : Store(p)

Spec == Init /\ [][Next]_vars

\* The per-particle blocks of NParticles particles, interleaved step by step.
SpecPar == InitPar /\ [][Next]_vars

----------------------------------------------------------------------------
\* Helpers of the properties.

Ids == DOMAIN pc

Six(c) == <<c.x, c.px, c.y, c.py, c.zeta, c.pzeta>>

\* The kicks logged for particle p, in the order they were made.
Kicks(p) == SelectSeq(log[p], LAMBDA ev : ev.op = "synchrobeam_kick")

\* The calls logged for particle p, without the slices passed over.
Calls(p) == SelectSeq(log[p], LAMBDA ev : ev.op # "skip")

CallName(ev) == IF ev.op = "synchrobeam_kick" THEN <<ev.op, ev.i>> ELSE <<ev.op>>

\* The indices i in [from, N_slices) with more than 2 macroparticles, increasing.
RECURSIVE NonEmptySlices(_)
NonEmptySlices(from) ==
    IF from >= Len(el.slices) THEN <<>>
    ELSE IF el.slices[from + 1].num_macroparticles > 2
    THEN <<from>> \o NonEmptySlices(from + 1)
    ELSE NonEmptySlices(from + 1)

\* Every quantity the code multiplies by 0.5 is even at every kick of the
\* model, so Half is exact there.
HalvesExact ==
    \A p \in Ids : pc[p] = "kick" =>
        /\ (w[p].zeta - Slice(el, i_slice[p]).zeta_center_star) % 2 = 0
        /\ Ksl(el, i_slice[p], parts[p].q0, parts[p].p0c) % 2 = 0
        /\ Slice(el, i_slice[p]).zeta_bin_width_star % 2 = 0

----------------------------------------------------------------------------
\* C1: when the per-particle block is done, the calls it made are one forward
\* frame transform, then one synchrobeam_kick for each slice index in
\* [0, N_slices) with more than 2 macroparticles, in strictly increasing order
\* and nothing else, then one inverse transform, then the store; and the loop
\* ran exactly N_slices iterations.
C1_KickSequence ==
    \A p \in Ids : pc[p] = "done" =>
        /\ [k \in 1..Len(Calls(p)) |-> CallName(Calls(p)[k])]
             = <<(<<"change_ref_frame">>)>>
               \o [k \in 1..Len(NonEmptySlices(0)) |->
                     <<"synchrobeam_kick", NonEmptySlices(0)[k]>>]
               \o << <<"change_back_ref_frame">>, <<"store">> >>
        /\ Len(log[p]) - 3 = Len(el.slices)
        /\ i_slice[p] = Len(el.slices)

\* A finished block that passed over slice 0 and kicked slice 1.
C1_Witness ==
    \E p \in Ids :
        /\ pc[p] = "done"
        /\ Len(el.slices) = 2
        /\ el.slices[1].num_macroparticles = 2
        /\ el.slices[2].num_macroparticles = 3
        /\ Len(Kicks(p)) = 1 /\ Kicks(p)[1].i = 1

----------------------------------------------------------------------------
\* C2: while particle p is at a slice with at most 2 macroparticles, no step of
\* its block changes its working x, px, y, py, zeta, pzeta, the stored
\* particle (its energy state included) or the record table; the only thing
\* logged is that the slice was passed over: no kick, no radiation model.
C2_SkippedSliceNoKick ==
    [][\A p \in Ids :
          ( /\ pc[p] \in {"loop", "kick"}
            /\ i_slice[p] < Len(el.slices)
            /\ el.slices[i_slice[p] + 1].num_macroparticles <= 2
            /\ <<pc[p], i_slice[p], w[p], log[p]>>' # <<pc[p], i_slice[p], w[p], log[p]>> )
          => /\ Six(w'[p]) = Six(w[p])
             /\ parts' = parts
             /\ table' = table
             /\ log'[p] = Append(log[p], [op |-> "skip", i |-> i_slice[p]])
             /\ i_slice'[p] = i_slice[p] + 1
             /\ pc'[p] = "loop"]_vars

\* A slice passed over right after a kick in which a photon was radiated, with
\* the radiation model switched on and shifted, boosted coordinates.
C2_Witness ==
    \E p \in Ids :
        /\ pc[p] = "loop"
        /\ el.do_beamstrahlung = 1
        /\ el.tan_phi = 1
        /\ Len(log[p]) = 3
        /\ log[p][2].op = "synchrobeam_kick"
        /\ log[p][2].rad_pzeta # log[p][2].stored_in
        /\ log[p][3].op = "skip"

----------------------------------------------------------------------------
\* C3: every kick on a slice whose num_particles is 0 has Fx_star = Fy_star =
\* Fz_star = 0 and returns x, px, y, py, zeta, pzeta as it got them, in every
\* beamstrahlung mode.
C3_ZeroIntensityNoKick ==
    \A p \in Ids : \A k \in 1..Len(Kicks(p)) :
        LET ev == Kicks(p)[k] IN
        el.slices[ev.i + 1].num_particles = 0 =>
            /\ ev.F.Fx_star = 0 /\ ev.F.Fy_star = 0 /\ ev.F.Fz_star = 0
            /\ Six(ev.c_out) = Six(ev.c_in)

\* A kick on a slice of no intensity, by a particle off the slice's axis, with
\* a radiation model switched on.
C3_Witness ==
    \E p \in Ids : \E k \in 1..Len(Kicks(p)) :
        LET ev == Kicks(p)[k] IN
        /\ el.slices[ev.i + 1].num_particles = 0
        /\ ev.c_in.x # el.slices[ev.i + 1].x_center_star
        /\ ev.c_in.y # el.slices[ev.i + 1].y_center_star
        /\ ev.rad # "none"

----------------------------------------------------------------------------
\* C4: at every entry to synchrobeam_kick, the kick computed with
\* do_beamstrahlung = 0 and the kick computed with do_beamstrahlung = 2 return
\* the same x, px, y, py, zeta, and their pzeta differ by exactly the change
\* synrad_avg made to the particle's stored pzeta; mode 0 leaves the particle
\* as it was.
KickInMode(p, mode) ==
    synchrobeam_kick([el EXCEPT !.do_beamstrahlung = mode], p, parts[p], table,
                     i_slice[p], parts[p].q0, parts[p].p0c, w[p])

C4_BeamstrahlungToggle ==
    \A p \in Ids : pc[p] = "kick" =>
        LET k0 == KickInMode(p, 0)
            k2 == KickInMode(p, 2)
        IN  /\ k0.c.x = k2.c.x /\ k0.c.px = k2.c.px
            /\ k0.c.y = k2.c.y /\ k0.c.py = k2.c.py
            /\ k0.c.zeta = k2.c.zeta
            /\ k2.c.pzeta - k0.c.pzeta = k2.part.pzeta - parts[p].pzeta
            /\ k0.part = parts[p]
            /\ k0.F = k2.F

\* A kick made in mode 2 in which synrad_avg changed the stored pzeta and the
\* transverse kick was not zero.
C4_Witness ==
    \E p \in Ids : \E k \in 1..Len(Kicks(p)) :
        LET ev == Kicks(p)[k] IN
        /\ ev.rad = "synrad_avg"
        /\ ev.rad_pzeta # ev.stored_in
        /\ ev.F.Fx_star # 0 /\ ev.F.Fy_star # 0 /\ ev.F.Fz_star # 0

----------------------------------------------------------------------------
\* C6: when every slice of the table has at most 2 macroparticles (an empty
\* table included) and the post-subtraction offsets are zero, a finished block
\* leaves the particle's stored x, px, y, py, zeta, pzeta as they were before
\* the call (the inverse frame transform of the model inverts the forward one).
C6_FrameRoundTrip ==
    \A p \in Ids :
        ( /\ pc[p] = "done"
          /\ \A k \in 1..Len(el.slices) : el.slices[k].num_macroparticles <= 2
          /\ el.post_subtract = Zero6 )
        => Six(parts[p]) = Six(parts0[p])

\* A finished round trip through a crossing with shifts, over a table of two
\* slices that are both passed over, one of them with intensity.
C6_Witness ==
    \E p \in Ids :
        /\ pc[p] = "done"
        /\ el.tan_phi = 1 /\ Shift(el) # Zero6 /\ el.post_subtract = Zero6
        /\ el.slices = <<SliceTwo, SliceEmpty>>
        /\ Six(parts[p]) = Six(parts0[p])
        /\ Six(w[p]) # Six(change_ref_frame_coordinates(w[p], Shift(el), el))

----------------------------------------------------------------------------
\* C7: there are a particle and a table of two different slices for which the
\* kicks in reverse slice order give another final pzeta than in the order
\* 0..N_slices-1: with beamstrahlung off, no particle of the model tracked
\* over <<SliceFlat, SliceRound>> ends with the pzeta it would end with over
\* <<SliceRound, SliceFlat>>.
Reversed(e) ==
    [e EXCEPT !.slices = [k \in 1..Len(e.slices) |-> e.slices[Len(e.slices) + 1 - k]]]

C7_SliceOrderMatters ==
    \A p \in Ids :
        ( /\ pc[p] = "done"
          /\ el.do_beamstrahlung = 0
          /\ el.slices = <<SliceFlat, SliceRound>> )
        => parts[p].pzeta
             # TrackLocalParticle(Reversed(el), p, parts0[p], <<>>).part.pzeta

\* A particle tracked over the flat slice, then the round one, both kicked.
C7_Witness ==
    \E p \in Ids :
        /\ pc[p] = "done"
        /\ el.do_beamstrahlung = 0
        /\ el.slices = <<SliceFlat, SliceRound>>
        /\ Len(Kicks(p)) = 2
        /\ Kicks(p)[1].c_out.pzeta # Kicks(p)[1].c_in.pzeta
        /\ Kicks(p)[2].c_out.pzeta # Kicks(p)[2].c_in.pzeta

----------------------------------------------------------------------------
\* C8: every kick made with do_beamstrahlung = 0 has S = 0.5*(zeta - the
\* slice's zeta centre) for the zeta on entry, and returns
\* pzeta + Fz + 0.5*(Fx*(px + 0.5*Fx) + Fy*(py + 0.5*Fy)), x - S*Fx, px + Fx,
\* y - S*Fy, py + Fy, for the x, px, y, py, pzeta on entry and the Fx, Fy, Fz
\* it computed.
C8_KickUpdate ==
    \A p \in Ids : \A k \in 1..Len(Kicks(p)) :
        LET ev == Kicks(p)[k]
            a  == ev.c_in
            b  == ev.c_out
            Fx == ev.F.Fx_star
            Fy == ev.F.Fy_star
            Fz == ev.F.Fz_star
            S  == (a.zeta - el.slices[ev.i + 1].zeta_center_star) \div 2
        IN  el.do_beamstrahlung = 0 =>
              /\ ev.F.S = S
              /\ b.pzeta = a.pzeta + Fz
                           + (Fx * (a.px + Fx \div 2) + Fy * (a.py + Fy \div 2)) \div 2
              /\ b.x = a.x - S * Fx
              /\ b.px = a.px + Fx
              /\ b.y = a.y - S * Fy
              /\ b.py = a.py + Fy

\* A kick in mode 0 away from the collision point centre, with momenta and
\* all three kick components different from zero.
C8_Witness ==
    \E p \in Ids : \E k \in 1..Len(Kicks(p)) :
        LET ev == Kicks(p)[k] IN
        /\ el.do_beamstrahlung = 0
        /\ ev.F.S # 0
        /\ ev.c_in.px # 0 /\ ev.c_in.py # 0
        /\ ev.F.Fx_star # 0 /\ ev.F.Fy_star # 0 /\ ev.F.Fz_star # 0

----------------------------------------------------------------------------
\* C9: the driver's pzeta and the particle's stored pzeta agree from the
\* update after the boost to the inverse transform, so at every entry to
\* synchrobeam_kick; after every kick the stored pzeta is the one the kick
\* returned; after the store it is the un-boosted one; and the stored delta
\* is always the one that belongs to the stored pzeta (no raw write).
C9_PzetaInSync ==
    \A p \in Ids :
        /\ pc[p] \in {"loop", "kick", "back"} => w[p].pzeta = parts[p].pzeta
        /\ pc[p] = "done" => parts[p].pzeta = w[p].pzeta
        /\ parts[p].delta = DeltaOf(parts[p].pzeta)
        /\ \A k \in 1..Len(Kicks(p)) :
              /\ Kicks(p)[k].c_in.pzeta = Kicks(p)[k].stored_in
              /\ Kicks(p)[k].stored_out = Kicks(p)[k].c_out.pzeta

\* A finished block with two kicks, the second one entered with a pzeta that
\* the first kick and its radiation model had both changed.
C9_Witness ==
    \E p \in Ids :
        /\ pc[p] = "done"
        /\ el.do_beamstrahlung # 0
        /\ Len(Kicks(p)) = 2
        /\ Kicks(p)[1].rad_pzeta # Kicks(p)[1].stored_in
        /\ Kicks(p)[1].c_out.pzeta # Kicks(p)[1].rad_pzeta
        /\ Kicks(p)[2].c_in.pzeta = Kicks(p)[1].c_out.pzeta
        /\ parts[p].pzeta # Kicks(p)[2].c_out.pzeta

----------------------------------------------------------------------------
\* C10: synchrobeam_kick returns the zeta it got, in every mode; through the
\* slice loop the driver's zeta is the one the forward transform produced, and
\* every kick of slice i uses S = 0.5*(that zeta - the zeta centre of slice i).
BoostedZeta(p) ==
    change_ref_frame_coordinates(LoadStep(parts0[p]), Shift(el), el).zeta

C10_ZetaUntouched ==
    \A p \in Ids :
        /\ pc[p] \in {"loop", "kick", "back"} => w[p].zeta = BoostedZeta(p)
        /\ \A k \in 1..Len(Kicks(p)) :
              LET ev == Kicks(p)[k] IN
              /\ ev.c_out.zeta = ev.c_in.zeta
              /\ ev.F.S = (BoostedZeta(p) - el.slices[ev.i + 1].zeta_center_star) \div 2

\* A second kick, after a first one that moved the particle, with a boosted
\* zeta that is not the stored one.
C10_Witness ==
    \E p \in Ids :
        /\ Len(Kicks(p)) = 2
        /\ Kicks(p)[1].F.Fz_star # 0
        /\ Kicks(p)[1].c_out.x # Kicks(p)[1].c_in.x
        /\ Kicks(p)[2].F.S # Kicks(p)[1].F.S
        /\ BoostedZeta(p) # parts0[p].zeta
        /\ el.do_beamstrahlung = 1

----------------------------------------------------------------------------
\* C5, under SpecPar.

AllDone == \A p \in Ids : pc[p] = "done"

\* The orders in which the particles can be processed one after another.
Orders ==
    {o \in [Ids -> Ids] : \A a, b \in Ids : a # b => o[a] # o[b]}

\* The particle array ps and the record table tbl after the particles
\* o[k], o[k+1], ... were processed one after another.
RECURSIVE OneAfterAnother(_, _, _, _)
OneAfterAnotherFrom(o, k, ps, r) ==
    OneAfterAnother(o, k + 1, [ps EXCEPT ![o[k]] = r.part], r.table)
OneAfterAnother(o, k, ps, tbl) ==
    IF k > Cardinality(Ids) THEN [parts |-> ps, table |-> tbl]
    ELSE OneAfterAnotherFrom(o, k, ps,
                             TrackLocalParticle(el, o[k], ps[o[k]], tbl))

ArrayOrder == [p \in Ids |-> p]

\* The entries of the record table that particle p appended.
EntriesOf(tbl, p) == SelectSeq(tbl, LAMBDA en : en.particle_id = p)

\* C5 as stated: when all particles are done, the particle array and the
\* record table are what processing the particles one after another, in some
\* order, leaves behind.
C5_AsOneAfterAnother ==
    AllDone => \E o \in Orders :
        /\ parts = OneAfterAnother(o, 1, parts0, <<>>).parts
        /\ table = OneAfterAnother(o, 1, parts0, <<>>).table

\* C5 amended: when all particles are done, every particle is as it is after
\* processing the particles one after another, the record table holds as many
\* entries, and the entries of each particle are those, in that order, that
\* the particle appends when tracked alone; without a record sink, or in modes
\* 0 and 2, the table is left untouched.
C5_ParticlesIndependent ==
    AllDone =>
        /\ parts = OneAfterAnother(ArrayOrder, 1, parts0, <<>>).parts
        /\ Len(table) = Len(OneAfterAnother(ArrayOrder, 1, parts0, <<>>).table)
        /\ \A p \in Ids :
              EntriesOf(table, p)
                = TrackLocalParticle(el, p, parts0[p], <<>>).table
        /\ ~(el.do_beamstrahlung = 1 /\ el.has_record) => table = <<>>

\* Two finished particles whose photons are interleaved in the record table.
C5_Witness ==
    /\ AllDone
    /\ el.do_beamstrahlung = 1 /\ el.has_record
    /\ Len(table) >= 3
    /\ table[1].particle_id # table[2].particle_id
    /\ table[2].particle_id # table[3].particle_id
    /\ \A p \in Ids : parts[p] # parts0[p]

====
